---- MODULE Spec2Model ----
(***************************************************************************)
(* Model of the two thesaurus loaders of geonode-agrovoc-importer:         *)
(*   load_agrovoc_thesaurus.py  (SKOS-XL labels, AGROVOC concept scheme)   *)
(*   load_gemet_thesaurus.py    (skos:prefLabel / rdfs:label labels)       *)
(*                                                                         *)
(* Python strings are sequences of one-character strings, so that          *)
(* str.lower(), str.split("-")[0] and the string order used by sorted()    *)
(* are computed and not assumed.                                           *)
(***************************************************************************)
EXTENDS Integers, Sequences, FiniteSets, TLC

VARIABLES
    pc,         \* position of the run
    loader,     \* "agrovoc" or "gemet": which management command runs
    options,    \* the parsed command line options handed to Command.handle
    store,      \* load_thesaurus' parameter store (= not dryrun)
    g,          \* the parsed rdflib Graph, reduced to what the loaders query
    thesaurus,  \* the Thesaurus object built by load_thesaurus
    ci,         \* index of the concept the outer for loop is at
    li,         \* index of the label the inner for loop is at
    tk,         \* the ThesaurusKeyword object of the current concept
    i,          \* AGROVOC's counter of labels built for the current concept
    db,         \* the persistence sink: the rows a save() committed
    stderr,     \* lines written with self.stderr.write
    stdout,     \* lines written with print
    calls,      \* history: every save() invoked, and whether it raised
    picked,     \* history: the (concept, label) positions that passed the whitelist
    error,      \* the exception that ended the run, None while there is none
    args,       \* arguments of a direct call of one of the module functions
    ret         \* value returned by that call

vars == <<pc, loader, options, store, g, thesaurus, ci, li, tk, i, db,
          stderr, stdout, calls, picked, error, args, ret>>

-----------------------------------------------------------------------------
(* Bounds of the model *)

MaxLen == 3         \* longest literal list handed to value_for_language
MaxLabels == 2      \* longest prefLabel / rdfs:label list handed to preferredLabel
MaxConcepts == 2    \* most concepts in an input graph
MaxSchemes == 2     \* most nodes typed skos:ConceptScheme in an input graph

-----------------------------------------------------------------------------
(* Python values *)

\* Python's None; a one-element tuple whose element is no character
None == <<"<None>">>

\* the characters that occur in the strings of the model, in code point order
ASCII == <<"-", "1", "2", "3", "4",
           "B", "C", "E", "G", "N", "S", "T",
           "a", "b", "c", "d", "e", "f", "g", "i", "n", "o", "r", "s", "t", "x">>

UPPER == <<"B", "C", "E", "G", "N", "S", "T">>
LOWER == <<"b", "c", "e", "g", "n", "s", "t">>

\* ord(c), up to the order of the code points
Ord(c) == CHOOSE k \in 1..Len(ASCII) : ASCII[k] = c

\* one character of str.lower()
LowerChar(c) ==
    IF \E k \in 1..Len(UPPER) : UPPER[k] = c
    THEN LOWER[CHOOSE k \in 1..Len(UPPER) : UPPER[k] = c]
    ELSE c

\* str.lower()
StrLower(s) == [k \in 1..Len(s) |-> LowerChar(s[k])]

\* Python's a < b on str
RECURSIVE StrLess(_, _)
StrLess(a, b) ==
    IF b = <<>> THEN FALSE
    ELSE IF a = <<>> THEN TRUE
    ELSE IF Head(a) = Head(b) THEN StrLess(Tail(a), Tail(b))
    ELSE Ord(Head(a)) < Ord(Head(b))

\* s.split("-")[0]
RECURSIVE SplitHyphenFirst(_)
SplitHyphenFirst(s) ==
    IF s = <<>> \/ Head(s) = "-" THEN <<>>
    ELSE <<Head(s)>> \o SplitHyphenFirst(Tail(s))

\* language tags
en == <<"e", "n">>
fr == <<"f", "r">>
de == <<"d", "e">>
it == <<"i", "t">>
es == <<"e", "s">>
EN == <<"E", "N">>
en_GB == <<"e", "n", "-", "G", "B">>

\* x in lst, for a Python list
In(x, lst) == \E k \in 1..Len(lst) : lst[k] = x

\* rdflib Literal: its text and its language tag (None when untagged)
Lit(text, language) == [text |-> text, language |-> language]

\* all lists over S of length lo..hi
Lists(S, lo, hi) == UNION {[1..n -> S] : n \in lo..hi}

-----------------------------------------------------------------------------
(* Exceptions, as values distinct from every string *)

AttributeError == <<"<AttributeError>">>
IndexError == <<"<IndexError>">>
TypeError == <<"<TypeError>">>
CommandError == <<"<CommandError>">>
UniquenessError == <<"<UniquenessError>">>
IntegrityError == <<"<IntegrityError>">>

-----------------------------------------------------------------------------
(* Module level functions of the two loaders *)

SUPPORTED_LANGUAGES == <<fr, de, en, it, es>>

\* value.lower() of None raises AttributeError
apply_lower_case(value, lower_case) ==
    IF lower_case
    THEN IF value = None THEN AttributeError ELSE StrLower(value)
    ELSE value

\* the key of sorted() in value_for_language
SortKey(literal) == IF literal.language = None THEN <<>> ELSE literal.language

\* item put into a list sorted by SortKey, behind the items whose key is not greater
RECURSIVE InsertByKey(_, _)
InsertByKey(item, lst) ==
    IF lst = <<>> THEN <<item>>
    ELSE IF StrLess(SortKey(item), SortKey(Head(lst)))
         THEN <<item>> \o lst
         ELSE <<Head(lst)>> \o InsertByKey(item, Tail(lst))

\* sorted(available, key=...): stable
RECURSIVE SortedByLanguage(_)
SortedByLanguage(available) ==
    IF available = <<>> THEN <<>>
    ELSE InsertByKey(available[Len(available)],
                     SortedByLanguage(SubSeq(available, 1, Len(available) - 1)))

\* the for loop of value_for_language; None when it returns nothing
RECURSIVE ScanForLanguage(_, _)
ScanForLanguage(sorted_lang, default_lang) ==
    IF sorted_lang = <<>> THEN None
    ELSE IF Head(sorted_lang).language = None THEN Head(sorted_lang).text
    ELSE IF SplitHyphenFirst(Head(sorted_lang).language) = default_lang
         THEN Head(sorted_lang).text
    ELSE ScanForLanguage(Tail(sorted_lang), default_lang)

\* value_for_language with the last resort taken from the sorted list
value_for_language_sorted_fallback(available, default_lang) ==
    LET sorted_lang == SortedByLanguage(available)
        found == ScanForLanguage(sorted_lang, default_lang)
    IN  IF found # None THEN found
        ELSE IF available = <<>> THEN IndexError
        ELSE sorted_lang[1].text

value_for_language(available, default_lang) ==
    LET found == ScanForLanguage(SortedByLanguage(available), default_lang)
    IN  IF found # None THEN found
        ELSE IF available = <<>> THEN IndexError
        ELSE available[1].text

\* get_default_language_preflabel comparing the primary subtag only
RECURSIVE get_default_language_preflabel_primary_subtag(_, _)
get_default_language_preflabel_primary_subtag(labels, default_lang) ==
    IF labels = <<>> THEN None
    ELSE IF /\ Head(labels).language # None
            /\ SplitHyphenFirst(Head(labels).language) = default_lang
         THEN Head(labels).text
    ELSE get_default_language_preflabel_primary_subtag(Tail(labels), default_lang)

\* labels: the literalForm literals of the concept's SKOS-XL prefLabel targets
RECURSIVE get_default_language_preflabel(_, _)
get_default_language_preflabel(labels, default_lang) ==
    IF labels = <<>> THEN None
    ELSE IF Head(labels).language = default_lang THEN Head(labels).text
    ELSE get_default_language_preflabel(Tail(labels), default_lang)

\* the language filter preferredLabel sets up
langfilter(l_, lang) ==
    IF lang # None
    THEN IF lang = <<>> THEN l_.language = None ELSE l_.language = lang
    ELSE TRUE

\* the labels of one label property that pass the filter
FilterLabels(labels, lang) == SelectSeq(labels, LAMBDA l_ : langfilter(l_, lang))

\* preferredLabel with the label property chosen before the language filter
preferredLabel_chosen_before_filter(subject, lang) ==
    LET pairs(labelProp, labels) ==
            [k \in 1..Len(labels) |-> <<labelProp, labels[k]>>]
    IN  IF Len(subject.prefLabel) # 0
        THEN pairs("skos:prefLabel", FilterLabels(subject.prefLabel, lang))
        ELSE pairs("rdfs:label", FilterLabels(subject.label, lang))

\* subject: a node with its skos:prefLabel and rdfs:label literals
preferredLabel(subject, lang) ==
    LET pairs(labelProp, labels) ==
            [k \in 1..Len(labels) |-> <<labelProp, labels[k]>>]
        prefLabels == FilterLabels(subject.prefLabel, lang)
        rdfsLabels == FilterLabels(subject.label, lang)
    IN  IF Len(prefLabels) # 0 THEN pairs("skos:prefLabel", prefLabels)
        ELSE IF Len(rdfsLabels) # 0 THEN pairs("rdfs:label", rdfsLabels)
        ELSE <<>>

-----------------------------------------------------------------------------
(* Inputs: command lines and RDF graphs *)

\* texts of the label literals
T_en == <<"S", "e">>
T_fr == <<"S", "f">>
T_EN == <<"S", "N">>
T_GB == <<"S", "G">>
T_un == <<"S", "x">>
T_rd == <<"S", "r">>

\* label literals: en, fr, mixed case EN, regional en-GB, untagged, and an
\* English rdfs:label
L_en == Lit(T_en, en)
L_fr == Lit(T_fr, fr)
L_EN == Lit(T_EN, EN)
L_GB == Lit(T_GB, en_GB)
L_un == Lit(T_un, None)
L_rd == Lit(T_rd, en)

\* a concept node before its URI is known: the literalForm literals of its
\* SKOS-XL prefLabel targets, its skos:prefLabel and its rdfs:label literals
Node(xl, pref, rdfs) == [xlPrefLabel |-> xl, prefLabel |-> pref, label |-> rdfs]

\* the concepts an AGROVOC file is made of
AgrovocNodes ==
    { Node(<<>>, <<>>, <<>>),
      Node(<<L_en>>, <<>>, <<>>),
      Node(<<L_fr>>, <<>>, <<>>),
      Node(<<L_en, L_fr>>, <<>>, <<>>),
      Node(<<L_EN, L_GB>>, <<>>, <<>>),
      Node(<<L_un, L_en>>, <<>>, <<>>),
      Node(<<L_en, L_EN>>, <<>>, <<>>) }

\* the concepts a GEMET file is made of
GemetNodes ==
    { Node(<<>>, <<>>, <<>>),
      Node(<<>>, <<L_en, L_fr>>, <<>>),
      Node(<<>>, <<L_fr>>, <<L_rd>>),
      Node(<<>>, <<>>, <<L_rd>>),
      Node(<<>>, <<L_EN, L_GB>>, <<>>),
      Node(<<>>, <<L_un, L_en>>, <<>>),
      Node(<<>>, <<L_en, L_EN>>, <<>>) }

DIGITS == <<"1", "2", "3", "4">>

\* URI of the k-th concept, of the k-th concept scheme
ConceptURI(k) == <<"C", DIGITS[k]>>
SchemeURI(k) == <<"S", DIGITS[k]>>

\* a datetime with a timezone, as dcterms:modified / dcterms:issued hold it
\* (the naive datetime, its timezone)
SomeDate == <<"2022-03-01T00:00:00", "+00:00">>

\* the literal objects of the concept scheme node, which the loaders take for
\* its titles
T_title_fr == <<"T", "f">>
T_title_en == <<"T", "e">>
TitleLists == { <<>>, <<Lit(T_title_fr, fr), Lit(T_title_en, en)>> }

\* the graphs g.parse can produce
Graphs(nodes) ==
    { [schemes |-> [k \in 1..ns |-> SchemeURI(k)],
       available_titles |-> ts,
       description |-> None,
       date |-> d,
       concepts |-> [k \in 1..Len(cs) |-> [uri |-> ConceptURI(k)] @@ cs[k]]] :
         ns \in 0..MaxSchemes, ts \in TitleLists, d \in {None, SomeDate},
         cs \in Lists(nodes, 0, MaxConcepts) }

NoGraph == [schemes |-> <<>>, available_titles |-> <<>>, description |-> None,
            date |-> None, concepts |-> <<>>]

FILE == <<"f", "1">>
NAME == <<"t", "1">>

\* the options a command line parses to
Options ==
    [file : {None, FILE}, name : {None, NAME}, dryrun : BOOLEAN,
     default_lang : {en, fr}, lower_case : BOOLEAN]

EmptyDb == [Thesaurus |-> {}, ThesaurusKeyword |-> {}, ThesaurusKeywordLabel |-> {}]

\* the variables no direct call of a module function touches
RunIdle ==
    /\ loader = "none" /\ options = None /\ store = FALSE /\ g = NoGraph
    /\ thesaurus = None /\ ci = 0 /\ li = 0 /\ tk = None /\ i = 0
    /\ db = EmptyDb /\ stderr = <<>> /\ stdout = <<>>
    /\ calls = {} /\ picked = {} /\ error = None

runVars == <<loader, options, store, g, thesaurus, ci, li, tk, i, db,
             stderr, stdout, calls, picked, error>>

\* a management command is started
Init ==
    /\ pc = "handle"
    /\ loader \in {"agrovoc", "gemet"}
    /\ options \in Options
    /\ store = FALSE /\ g = NoGraph /\ thesaurus = None
    /\ ci = 0 /\ li = 0 /\ tk = None /\ i = 0
    /\ db = EmptyDb /\ stderr = <<>> /\ stdout = <<>>
    /\ calls = {} /\ picked = {} /\ error = None
    /\ args = None /\ ret = None

-----------------------------------------------------------------------------
(* What the loaders share *)

\* g.value(..., any=True): the first subject, whatever follows it
graph_value_any(values) == IF values = <<>> THEN None ELSE values[1]

\* g.value(None, RDF.type, SKOS.ConceptScheme, any=False): the only subject,
\* None when there is none, UniquenessError when there are several
graph_value_unique(values) ==
    IF values = <<>> THEN None
    ELSE IF Len(values) > 1 THEN UniquenessError
    ELSE values[1]

\* whether a save() may raise: only a save that is invoked can
Raises(invoked) == IF invoked THEN BOOLEAN ELSE {FALSE}

Line(style, msg, about) == [style |-> style, msg |-> msg, about |-> about]

SaveCall(model, c, l, raised) == [model |-> model, ci |-> c, li |-> l, raised |-> raised]

\* an uncaught exception ends the command
Abort(exception) ==
    /\ pc' = "aborted"
    /\ error' = exception

\* the outer for loop goes on with concept c, or load_thesaurus returns
GoToConcept(graph, c) ==
    /\ ci' = c
    /\ li' = 0
    /\ pc' = IF c > Len(graph.concepts) THEN "done" ELSE "concepts"

-----------------------------------------------------------------------------
(* load_agrovoc_thesaurus.py *)

agrovoc_handle ==
    /\ pc = "handle" /\ loader = "agrovoc"
    /\ IF options.file = None \/ options.name = None
       THEN /\ Abort(CommandError)
            /\ UNCHANGED store
       ELSE /\ pc' = "load"
            /\ store' = ~options.dryrun
            /\ UNCHANGED error
    /\ UNCHANGED <<loader, options, g, thesaurus, ci, li, tk, i, db,
                   stderr, stdout, calls, picked, args, ret>>

\* load_thesaurus up to the loop over the concepts
agrovoc_load_thesaurus ==
    /\ pc = "load" /\ loader = "agrovoc"
    /\ \E parsed \in Graphs(AgrovocNodes) :
        LET parsedLines == <<Line("SUCCESS", "Starting to parsed file", options.file),
                             Line("SUCCESS", "Successful parsed file", options.file)>>
            \* "".replace(tzinfo=None) is a TypeError
            thesaurus_date == parsed.date[1]
            scheme == graph_value_unique(parsed.schemes)
            thesaurus_title == value_for_language(parsed.available_titles, options.default_lang)
            description == IF parsed.description = None THEN thesaurus_title
                           ELSE parsed.description
            built == [identifier |-> options.name, description |-> description,
                      title |-> thesaurus_title, about |-> scheme,
                      date |-> thesaurus_date]
            exception == IF parsed.date = None THEN TypeError
                         ELSE IF scheme = UniquenessError THEN UniquenessError
                         ELSE IF scheme = None THEN CommandError
                         ELSE IF thesaurus_title = IndexError THEN IndexError
                         ELSE None
        IN  /\ g' = parsed
            /\ IF exception # None
               THEN /\ Abort(exception)
                    /\ stderr' = stderr \o parsedLines
                    /\ UNCHANGED <<thesaurus, ci, li, db, calls>>
               ELSE \E raised \in Raises(store) :
                    /\ thesaurus' = built
                    /\ calls' = IF store
                                THEN calls \cup {SaveCall("Thesaurus", 0, 0, raised)}
                                ELSE calls
                    /\ IF raised
                       THEN /\ Abort(IntegrityError)
                            /\ stderr' = stderr \o parsedLines
                            /\ UNCHANGED <<ci, li, db>>
                       ELSE /\ db' = IF store
                                     THEN [db EXCEPT !.Thesaurus = @ \cup {built}]
                                     ELSE db
                            /\ stderr' = stderr \o parsedLines
                                         \o <<Line("SUCCESS", "Thesaurus", description)>>
                            /\ GoToConcept(parsed, 1)
                            /\ UNCHANGED error
    /\ UNCHANGED <<loader, options, store, tk, i, stdout, picked, args, ret>>

\* one turn of the loop over the concepts, up to the loop over its labels
agrovoc_concept ==
    /\ pc = "concepts" /\ loader = "agrovoc"
    /\ LET concept == g.concepts[ci]
           about == apply_lower_case(concept.uri, options.lower_case)
           found == get_default_language_preflabel(concept.xlPrefLabel,
                                                   options.default_lang)
           alt_label == apply_lower_case(found, options.lower_case)
           built == [thesaurus |-> thesaurus.identifier, about |-> about,
                     alt_label |-> alt_label]
       IN  IF found = None
           THEN \* continue, before the write of the error line is reached
                /\ GoToConcept(g, ci + 1)
                /\ UNCHANGED <<tk, i, db, stderr, calls, error>>
           ELSE IF alt_label = None
           THEN \* the second test of alt_label, on a str
                /\ stderr' = stderr \o <<Line("ERROR", "could not find", concept.uri)>>
                /\ GoToConcept(g, ci + 1)
                /\ UNCHANGED <<tk, i, db, calls, error>>
           ELSE \E raised \in Raises(store) :
                /\ tk' = built
                /\ calls' = IF store
                            THEN calls \cup {SaveCall("ThesaurusKeyword", ci, 0, raised)}
                            ELSE calls
                /\ IF raised
                   THEN \* tk.save() is in no try block
                        /\ Abort(IntegrityError)
                        /\ UNCHANGED <<ci, li, i, db, stderr>>
                   ELSE /\ db' = IF store
                                 THEN [db EXCEPT !.ThesaurusKeyword = @ \cup {built}]
                                 ELSE db
                        /\ i' = 0
                        /\ li' = 1
                        /\ pc' = "labels"
                        /\ UNCHANGED <<ci, error, stderr>>
    /\ UNCHANGED <<loader, options, store, g, thesaurus, stdout,
                   picked, args, ret>>

\* one turn of the loop over the SKOS-XL prefLabel targets of the concept; the
\* last turn also writes the line that follows the loop
agrovoc_label ==
    /\ pc = "labels" /\ loader = "agrovoc"
    /\ LET concept == g.concepts[ci]
           pref_label == concept.xlPrefLabel[li]
           lang == apply_lower_case(pref_label.language, options.lower_case)
           label == apply_lower_case(pref_label.text, options.lower_case)
           built == [keyword |-> tk.about, lang |-> lang, label |-> label]
           last == li = Len(concept.xlPrefLabel)
           after(n) == IF last
                       THEN <<Line("SUCCESS", "set alt_label", <<tk.alt_label, n>>)>>
                       ELSE <<>>
           next == /\ IF last THEN GoToConcept(g, ci + 1)
                              ELSE /\ li' = li + 1
                                   /\ UNCHANGED <<pc, ci>>
                   /\ UNCHANGED error
       IN  IF lang = AttributeError
           THEN \* None.lower(), in no try block
                /\ Abort(AttributeError)
                /\ UNCHANGED <<ci, li, i, db, stderr, calls, picked>>
           ELSE IF ~In(lang, SUPPORTED_LANGUAGES)
           THEN /\ next
                /\ stderr' = stderr \o after(i)
                /\ UNCHANGED <<i, db, calls, picked>>
           ELSE \E raised \in Raises(store) :
                /\ next
                /\ i' = i + 1
                /\ picked' = picked \cup {<<ci, li>>}
                /\ calls' = IF store
                            THEN calls \cup {SaveCall("ThesaurusKeywordLabel", ci, li, raised)}
                            ELSE calls
                /\ db' = IF store /\ ~raised
                         THEN [db EXCEPT !.ThesaurusKeywordLabel = @ \cup {built}]
                         ELSE db
                /\ stderr' = stderr
                             \o (IF raised
                                 THEN <<Line("ERROR", "could not add label", <<label, lang>>)>>
                                 ELSE <<>>)
                             \o after(i + 1)
    /\ UNCHANGED <<loader, options, store, g, thesaurus, tk, stdout, args, ret>>

-----------------------------------------------------------------------------
(* load_gemet_thesaurus.py *)

\* handle passing store=True whatever --dry-run says
gemet_handle_store_always ==
    /\ pc = "handle" /\ loader = "gemet"
    /\ IF options.file = None \/ options.name = None
       THEN /\ Abort(CommandError)
            /\ UNCHANGED store
       ELSE /\ pc' = "load"
            /\ store' = TRUE
            /\ UNCHANGED error
    /\ UNCHANGED <<loader, options, g, thesaurus, ci, li, tk, i, db,
                   stderr, stdout, calls, picked, args, ret>>

gemet_handle ==
    /\ pc = "handle" /\ loader = "gemet"
    /\ IF options.file = None \/ options.name = None
       THEN /\ Abort(CommandError)
            /\ UNCHANGED store
       ELSE /\ pc' = "load"
            /\ store' = ~options.dryrun
            /\ UNCHANGED error
    /\ UNCHANGED <<loader, options, g, thesaurus, ci, li, tk, i, db,
                   stderr, stdout, calls, picked, args, ret>>

\* load_thesaurus up to the loop over the concepts
gemet_load_thesaurus ==
    /\ pc = "load" /\ loader = "gemet"
    /\ \E parsed \in Graphs(GemetNodes) :
        LET firstLine == <<Line("SUCCESS", "using defaultlang", options.default_lang)>>
            scheme == graph_value_unique(parsed.schemes)
            thesaurus_title == value_for_language(parsed.available_titles, options.default_lang)
            description == IF parsed.description = None THEN thesaurus_title
                           ELSE parsed.description
            date_issued == IF parsed.date = None THEN <<"2024-01-01">>
                           ELSE parsed.date
            built == [identifier |-> options.name, description |-> description,
                      title |-> thesaurus_title, about |-> scheme,
                      date |-> date_issued]
            exception == IF scheme = UniquenessError THEN UniquenessError
                         ELSE IF scheme = None THEN CommandError
                         ELSE IF thesaurus_title = IndexError THEN IndexError
                         ELSE None
        IN  /\ g' = parsed
            /\ IF exception # None
               THEN /\ Abort(exception)
                    /\ stderr' = stderr \o firstLine
                    /\ UNCHANGED <<thesaurus, ci, li, db, calls>>
               ELSE \E raised \in Raises(store) :
                    /\ thesaurus' = built
                    /\ stderr' = stderr \o firstLine
                                 \o <<Line("SUCCESS", "Thesaurus", description)>>
                    /\ calls' = IF store
                                THEN calls \cup {SaveCall("Thesaurus", 0, 0, raised)}
                                ELSE calls
                    /\ IF raised
                       THEN /\ Abort(IntegrityError)
                            /\ UNCHANGED <<ci, li, db>>
                       ELSE /\ db' = IF store
                                     THEN [db EXCEPT !.Thesaurus = @ \cup {built}]
                                     ELSE db
                            /\ GoToConcept(parsed, 1)
                            /\ UNCHANGED error
    /\ UNCHANGED <<loader, options, store, tk, i, stdout, picked, args, ret>>

\* one turn of the loop over the concepts, up to the loop over its labels
gemet_concept ==
    /\ pc = "concepts" /\ loader = "gemet"
    /\ LET concept == g.concepts[ci]
           found == preferredLabel(concept, options.default_lang)
           pref == apply_lower_case(found[1][2].text, options.lower_case)
           about == apply_lower_case(concept.uri, options.lower_case)
           built == [thesaurus |-> thesaurus.identifier, about |-> about,
                     alt_label |-> pref]
       IN  IF found = <<>>
           THEN \* [][0] is an IndexError; the handler builds the message, writes
                \* it nowhere and continues
                /\ GoToConcept(g, ci + 1)
                /\ UNCHANGED <<tk, db, stderr, stdout, calls, error>>
           ELSE \E raised \in Raises(store) :
                /\ tk' = built
                /\ stderr' = stderr \o <<Line("SUCCESS", "Concept", <<pref, about>>)>>
                /\ calls' = IF store
                            THEN calls \cup {SaveCall("ThesaurusKeyword", ci, 0, raised)}
                            ELSE calls
                /\ IF raised
                   THEN \* caught by the except around the save and the label loop
                        /\ stdout' = stdout \o <<Line("", "could not save", pref)>>
                        /\ GoToConcept(g, ci + 1)
                        /\ UNCHANGED <<db, error>>
                   ELSE /\ db' = IF store
                                 THEN [db EXCEPT !.ThesaurusKeyword = @ \cup {built}]
                                 ELSE db
                        /\ li' = 1
                        /\ pc' = "labels"
                        /\ UNCHANGED <<ci, stdout, error>>
    /\ UNCHANGED <<loader, options, store, g, thesaurus, i, picked, args, ret>>

\* one turn of the loop over preferredLabel(g, concept)
gemet_label ==
    /\ pc = "labels" /\ loader = "gemet"
    /\ LET concept == g.concepts[ci]
           labels == preferredLabel(concept, None)
           pref_label == labels[li][2]
           lang == apply_lower_case(pref_label.language, options.lower_case)
           label == apply_lower_case(pref_label.text, options.lower_case)
           built == [keyword |-> tk.about, lang |-> lang, label |-> label]
           next == IF li = Len(labels) THEN GoToConcept(g, ci + 1)
                   ELSE /\ li' = li + 1
                        /\ UNCHANGED <<pc, ci>>
           caught == /\ stdout' = stdout \o <<Line("", "could not save", tk.alt_label)>>
                     /\ GoToConcept(g, ci + 1)
       IN  IF lang = AttributeError
           THEN \* None.lower(), caught by the except around the loop
                /\ caught
                /\ UNCHANGED <<db, stderr, calls, picked>>
           ELSE IF ~In(lang, SUPPORTED_LANGUAGES)
           THEN /\ next
                /\ UNCHANGED <<db, stderr, stdout, calls, picked>>
           ELSE \E raised \in Raises(store) :
                /\ stderr' = stderr \o <<Line("SUCCESS", "Label", <<lang, label>>)>>
                /\ picked' = picked \cup {<<ci, li>>}
                /\ calls' = IF store
                            THEN calls \cup {SaveCall("ThesaurusKeywordLabel", ci, li, raised)}
                            ELSE calls
                /\ IF raised
                   THEN /\ caught
                        /\ UNCHANGED db
                   ELSE /\ db' = IF store
                                 THEN [db EXCEPT !.ThesaurusKeywordLabel = @ \cup {built}]
                                 ELSE db
                        /\ next
                        /\ UNCHANGED stdout
    /\ UNCHANGED <<loader, options, store, g, thesaurus, tk, i, error, args, ret>>

-----------------------------------------------------------------------------

Next ==
    \/ agrovoc_handle
    \/ agrovoc_load_thesaurus
    \/ agrovoc_concept
    \/ agrovoc_label
    \/ gemet_handle
    \/ gemet_load_thesaurus
    \/ gemet_concept
    \/ gemet_label

Spec == Init /\ [][Next]_vars

-----------------------------------------------------------------------------
(* Direct calls of value_for_language *)

\* literals with distinct texts: untagged, en, en-GB, de, fr, EN
SelectorPool ==
    { Lit(<<"a">>, None), Lit(<<"b">>, en), Lit(<<"c">>, en_GB),
      Lit(<<"d">>, de), Lit(<<"e">>, fr), Lit(<<"f">>, EN) }

InitSelector ==
    /\ pc = "call"
    /\ args \in [available : Lists(SelectorPool, 0, MaxLen),
                 default_lang : {en, fr, it}]
    /\ ret = None
    /\ RunIdle

call_value_for_language ==
    /\ pc = "call"
    /\ ret' = value_for_language(args.available, args.default_lang)
    /\ pc' = "returned"
    /\ UNCHANGED <<args, runVars>>

NextSelector == call_value_for_language

SpecSelector == InitSelector /\ [][NextSelector]_vars

-----------------------------------------------------------------------------
(* Direct calls of preferredLabel *)

ResolverPool == { L_en, L_fr, L_EN, L_un }

InitResolver ==
    /\ pc = "call"
    /\ args \in [subject : [prefLabel : Lists(ResolverPool, 0, MaxLabels),
                            label : Lists(ResolverPool, 0, MaxLabels)],
                 lang : {None, <<>>, en, fr}]
    /\ ret = None
    /\ RunIdle

call_preferredLabel ==
    /\ pc = "call"
    /\ ret' = preferredLabel(args.subject, args.lang)
    /\ pc' = "returned"
    /\ UNCHANGED <<args, runVars>>

NextResolver == call_preferredLabel

SpecResolver == InitResolver /\ [][NextResolver]_vars

-----------------------------------------------------------------------------
(* Claims about value_for_language, under SpecSelector *)

\* positions of the untagged literals of a list
Untagged(available) ==
    {k \in 1..Len(available) : available[k].language = None}

\* positions of the literals whose primary subtag is the target language
PrimaryMatches(available, target) ==
    {k \in 1..Len(available) :
        /\ available[k].language # None
        /\ SplitHyphenFirst(available[k].language) = target}

\* the position in S that comes first when the list is ordered by tag, equal
\* tags keeping their order
FirstInTagOrder(available, S) ==
    CHOOSE k \in S : \A j \in S :
        /\ ~StrLess(available[j].language, available[k].language)
        /\ available[j].language = available[k].language => k <= j

\* C2: for a non-empty list, the selector returns the text of an untagged
\* literal if there is one, whatever the target; else the text of the first
\* literal in tag order whose primary subtag is the target; else the text of
\* the first element of the list as it was given.
C2_LanguageSelector ==
    (pc = "returned" /\ args.available # <<>>) =>
        LET available == args.available
            untagged == Untagged(available)
            matches == PrimaryMatches(available, args.default_lang)
        IN  IF untagged # {}
            THEN \E k \in untagged : ret = available[k].text
            ELSE IF matches # {}
            THEN ret = available[FirstInTagOrder(available, matches)].text
            ELSE ret = available[1].text

\* the last resort is taken, and the first element given is not the first in
\* tag order
C2_Witness ==
    /\ pc = "returned" /\ args.available # <<>>
    /\ Untagged(args.available) = {}
    /\ PrimaryMatches(args.available, args.default_lang) = {}
    /\ SortedByLanguage(args.available)[1] # args.available[1]
    /\ ret = args.available[1].text

-----------------------------------------------------------------------------
(* Claims about preferredLabel, under SpecResolver *)

\* the literals of labels that pass the language filter lang, in order
RECURSIVE Passing(_, _)
Passing(labels, lang) ==
    IF labels = <<>> THEN <<>>
    ELSE LET l_ == Head(labels)
             passes == \/ lang = None
                       \/ lang = <<>> /\ l_.language = None
                       \/ lang # None /\ lang # <<>> /\ l_.language = lang
         IN  (IF passes THEN <<l_>> ELSE <<>>) \o Passing(Tail(labels), lang)

LabelsOf(result) == [k \in 1..Len(result) |-> result[k][2]]
PropertiesOf(result) == {result[k][1] : k \in 1..Len(result)}

\* C3 as claimed: the label property is chosen before the language filter,
\* skos:prefLabel whenever the subject has a skos:prefLabel literal of any
\* language; if none of its literals passes the filter the result is empty,
\* with no fall through to rdfs:label.
C3_ChosenBeforeFilter ==
    pc = "returned" =>
        IF args.subject.prefLabel # <<>>
        THEN /\ LabelsOf(ret) = Passing(args.subject.prefLabel, args.lang)
             /\ PropertiesOf(ret) \subseteq {"skos:prefLabel"}
        ELSE /\ LabelsOf(ret) = Passing(args.subject.label, args.lang)
             /\ PropertiesOf(ret) \subseteq {"rdfs:label"}

\* C3 amended: the label property is chosen after the language filter: the
\* result is the skos:prefLabel literals that pass the filter if there is one,
\* else the rdfs:label literals that pass it, else empty. A subject whose
\* skos:prefLabel literals all fail the filter falls through to rdfs:label.
C3_ChosenAfterFilter ==
    pc = "returned" =>
        LET prefPassing == Passing(args.subject.prefLabel, args.lang)
            rdfsPassing == Passing(args.subject.label, args.lang)
        IN  IF prefPassing # <<>>
            THEN /\ LabelsOf(ret) = prefPassing
                 /\ PropertiesOf(ret) = {"skos:prefLabel"}
            ELSE IF rdfsPassing # <<>>
            THEN /\ LabelsOf(ret) = rdfsPassing
                 /\ PropertiesOf(ret) = {"rdfs:label"}
            ELSE ret = <<>>

\* a subject with skos:prefLabel literals, none in the requested language,
\* gets its rdfs:label literal in that language
C3_Witness ==
    /\ pc = "returned"
    /\ args.lang = en
    /\ args.subject.prefLabel # <<>>
    /\ Passing(args.subject.prefLabel, en) = <<>>
    /\ ret # <<>>
    /\ PropertiesOf(ret) = {"rdfs:label"}

-----------------------------------------------------------------------------
(* Claims about a run of a loader, under Spec *)

\* the concepts the loop over the concepts is through with
Finished(c) == c \in 1..Len(g.concepts) /\ c < ci

\* the label literals the inner loop of the running loader goes over
LoopLabels(c) ==
    IF loader = "agrovoc" THEN g.concepts[c].xlPrefLabel
    ELSE LabelsOf(preferredLabel(g.concepts[c], None))

\* the concept has a label literal tagged with exactly the default language
HasDefaultLanguageLabel(c) ==
    LET candidates == IF loader = "agrovoc" THEN g.concepts[c].xlPrefLabel
                      ELSE g.concepts[c].prefLabel \o g.concepts[c].label
    IN  \E k \in 1..Len(candidates) :
            candidates[k].language = options.default_lang

\* the save() calls made for concept c
CallsOf(c) == {call \in calls : call.ci = c}

\* C1: in dry-run mode no save is ever invoked and no row is persisted,
\* whatever the graph, the default language and force-lower-case.
C1_DryRunSavesNothing ==
    (options.dryrun \/ (pc # "handle" /\ ~store)) =>
        (calls = {} /\ db = EmptyDb)

\* a dry run that went through a whole graph and built labels
C1_Witness ==
    /\ pc = "done" /\ options.dryrun /\ ~store
    /\ Len(g.concepts) = MaxConcepts
    /\ picked # {}

\* C4: a keyword is built and saved only for a concept with a label in exactly
\* the default language: persisted keywords have an alt_label; a concept
\* without such a label gets no save call, no keyword row, no label, and does
\* not end the run; a concept with one gets its keyword save whenever the run
\* stores.
C4_KeywordNeedsCanonicalLabel ==
    /\ \A row \in db.ThesaurusKeyword : row.alt_label # None
    /\ \A c \in 1..Len(g.concepts) :
        /\ ~HasDefaultLanguageLabel(c) =>
            /\ CallsOf(c) = {}
            /\ \A p \in picked : p[1] # c
            /\ \A row \in db.ThesaurusKeyword :
                   row.about # apply_lower_case(g.concepts[c].uri, options.lower_case)
            /\ ~(pc \in {"labels", "aborted"} /\ ci = c)
        /\ (HasDefaultLanguageLabel(c) /\ store /\ Finished(c)) =>
            \E call \in CallsOf(c) : call.model = "ThesaurusKeyword"

\* the first concept only has a regional variant of the default language and
\* is skipped, a later concept is saved
C4_Witness ==
    /\ pc = "done" /\ loader = "agrovoc" /\ store
    /\ Len(g.concepts) > 1
    /\ ~HasDefaultLanguageLabel(1)
    /\ \E k \in 1..Len(g.concepts[1].xlPrefLabel) :
           SplitHyphenFirst(g.concepts[1].xlPrefLabel[k].language) = options.default_lang
    /\ db.ThesaurusKeyword # {}

\* C7: a graph with no concept scheme, or with several, ends the run with an
\* error before anything is saved.
C7_OneConceptScheme ==
    (/\ options.file # None /\ options.name # None
     /\ pc \notin {"handle", "load"}
     /\ Len(g.schemes) # 1) =>
        /\ pc = "aborted"
        /\ error = IF loader = "agrovoc" /\ g.date = None THEN TypeError
                   ELSE IF Len(g.schemes) = 0 THEN CommandError
                   ELSE UniquenessError
        /\ calls = {}
        /\ db = EmptyDb

\* a storing run over a graph with several concept schemes was refused
C7_Witness ==
    /\ pc = "aborted" /\ store
    /\ Len(g.schemes) > 1
    /\ g.concepts # <<>>
    /\ error = UniquenessError

\* the label save() calls that committed a row
SavedLabels ==
    {call \in calls : call.model = "ThesaurusKeywordLabel" /\ ~call.raised}

\* C5: every saved label has a lang of the supported set, and a label literal
\* whose language tag is outside the set, or absent, is never saved.
C5_SavedLabelsAreSupported ==
    /\ \A row \in db.ThesaurusKeywordLabel : In(row.lang, SUPPORTED_LANGUAGES)
    /\ \A call \in SavedLabels :
           In(LoopLabels(call.ci)[call.li].language, SUPPORTED_LANGUAGES)

\* the keyword and label save() calls that raised
RaisedRecordSaves ==
    {call \in calls :
        call.raised /\ call.model \in {"ThesaurusKeyword", "ThesaurusKeywordLabel"}}

\* C6: a failure raised by a keyword save or a label save is caught: it never
\* ends the run, and the run goes on to return with every concept gone through.
C6_RecordSaveFailureIsCaught ==
    RaisedRecordSaves # {} =>
        /\ pc # "aborted" \/ error # IntegrityError
        /\ pc = "done" => ci = Len(g.concepts) + 1

\* the label at position l of concept c passes the whitelist in this run
PassesWhitelist(c, l) ==
    LET language == LoopLabels(c)[l].language
    IN  /\ ~(options.lower_case /\ language = None)
        /\ In(apply_lower_case(language, options.lower_case), SUPPORTED_LANGUAGES)

\* C8: a failure of one label save is isolated to that label: once the loader
\* is through with the concept, the save of every later whitelisted label of
\* the concept was attempted.
C8_LabelFailureIsIsolated ==
    \A failed \in calls :
        (failed.model = "ThesaurusKeywordLabel" /\ failed.raised /\ Finished(failed.ci)) =>
            \A l \in (failed.li + 1)..Len(LoopLabels(failed.ci)) :
                PassesWhitelist(failed.ci, l) =>
                    \E call \in CallsOf(failed.ci) :
                        call.model = "ThesaurusKeywordLabel" /\ call.li = l

\* the lines on the error stream that report a skipped concept
SkipLines ==
    {k \in 1..Len(stderr) :
        stderr[k].style = "ERROR" /\ stderr[k].msg = "could not find"}

\* the concepts skipped for want of a canonical label
SkippedConcepts == {c \in 1..Len(g.concepts) : Finished(c) /\ ~HasDefaultLanguageLabel(c)}

\* C9: every concept skipped for want of a canonical label has its line on the
\* error stream: there are as many such lines as skipped concepts.
C9_SkipIsLogged ==
    /\ Cardinality(SkipLines) = Cardinality(SkippedConcepts)
    /\ \A c \in SkippedConcepts :
           \E k \in SkipLines : stderr[k].about = g.concepts[c].uri

\* the concepts whose label loop ran to its end undisturbed by a save failure
LoopedUndisturbed ==
    {c \in 1..Len(g.concepts) :
        /\ Finished(c)
        /\ HasDefaultLanguageLabel(c)
        /\ \A call \in CallsOf(c) : ~call.raised}

\* C10: force-lower-case does not change which labels are selected: the label
\* positions that pass the whitelist in this run are those that pass it in the
\* run over the same graph without force-lower-case.
C10_LowerCaseKeepsSelection ==
    \A c \in LoopedUndisturbed :
        {l \in 1..Len(LoopLabels(c)) : <<c, l>> \in picked}
            = {l \in 1..Len(LoopLabels(c)) :
                   In(apply_lower_case(LoopLabels(c)[l].language, FALSE),
                      SUPPORTED_LANGUAGES)}

====
